---- MODULE Spec2Model ----
(***************************************************************************)
(* Model of src/main.py: the record normalisation helpers (_s, _fmt_date,  *)
(* _to_datetime, normalize_segments, segments_to_str,                      *)
(* _calc_status_like_excel), the storage helpers (import_to_sf_append,     *)
(* _insert_record_main, _update_record, _insert_comment) and the Streamlit *)
(* handlers that call them (sidebar login / logout / import, create        *)
(* dialog, edit dialog, comment box).                                      *)
(*                                                                         *)
(* Text is modelled as a sequence of characters, so that strip(), lower(), *)
(* split(",") and the date parsers are computed rather than assumed.  A    *)
(* character is a one-letter string; an accented letter is written as its  *)
(* base letter followed by the accent mark ("c," is c-cedilla, "o~" is     *)
(* o-tilde, "o'" is o-acute, "e^" is e-circumflex), which is also the form *)
(* unicodedata.normalize("NFD", ...) gives it.                             *)
(***************************************************************************)
EXTENDS Integers, Sequences, FiniteSets, TLC

VARIABLES table, comments, auth, processed_hashes, upload_key,
          uuid_counter, now, last, call

vars == <<table, comments, auth, processed_hashes, upload_key,
          uuid_counter, now, last, call>>

(***************************************************************************)
(* Python values.  Every value carries its type in field t, so that values *)
(* of different Python types can be compared.                              *)
(***************************************************************************)
None == [t |-> "None"]

NaN == [t |-> "float_nan"]

NaT == [t |-> "NaT"]

T(s) == [t |-> "str", s |-> s]

DateOf(y, m, d) == [t |-> "date", y |-> y, m |-> m, d |-> d]

IsDate(v) == v.t = "date"

(***************************************************************************)
(* Characters                                                              *)
(***************************************************************************)
UPPER == <<"A","B","C","D","E","F","G","H","I","J","K","L","M","N","O","P",
           "Q","R","S","T","U","V","W","X","Y","Z","C,","A~","O~","O'","E^">>

LOWER == <<"a","b","c","d","e","f","g","h","i","j","k","l","m","n","o","p",
           "q","r","s","t","u","v","w","x","y","z","c,","a~","o~","o'","e^">>

ACCENTED == <<"c,","a~","o~","o'","e^">>

BASE == <<"c","a","o","o","e">>

DIGITS == <<"0","1","2","3","4","5","6","7","8","9">>

IndexIn(seq, c) == CHOOSE i \in 1..Len(seq) : seq[i] = c

Occurs(seq, c) == \E i \in 1..Len(seq) : seq[i] = c

\* str.lower() on one character
LOWER_OF == [c \in {UPPER[i] : i \in 1..Len(UPPER)} |-> LOWER[IndexIn(UPPER, c)]]

LowerChar(c) == IF c \in DOMAIN LOWER_OF THEN LOWER_OF[c] ELSE c

\* NFD decomposition followed by removal of the combining mark (category Mn)
BASE_OF ==
    [c \in {ACCENTED[i] : i \in 1..Len(ACCENTED)} |-> BASE[IndexIn(ACCENTED, c)]]

StripMark(c) == IF c \in DOMAIN BASE_OF THEN BASE_OF[c] ELSE c

IsSpace(c) == c = " "

IsDigit(c) == Occurs(DIGITS, c)

DigitVal(c) == IndexIn(DIGITS, c) - 1

(***************************************************************************)
(* str methods                                                             *)
(***************************************************************************)
lower(s) == [i \in 1..Len(s) |-> LowerChar(s[i])]

RECURSIVE lstrip(_)
lstrip(s) == IF s # <<>> /\ IsSpace(Head(s)) THEN lstrip(Tail(s)) ELSE s

RECURSIVE rstrip(_)
rstrip(s) == IF s # <<>> /\ IsSpace(s[Len(s)])
             THEN rstrip(SubSeq(s, 1, Len(s) - 1)) ELSE s

strip(s) == rstrip(lstrip(s))

\* s.split(sep) for a one-character separator: always at least one piece
RECURSIVE split(_, _)
split(s, sep) ==
    IF ~Occurs(s, sep) THEN <<s>>
    ELSE LET i == CHOOSE k \in 1..Len(s) :
                     s[k] = sep /\ \A j \in 1..(k - 1) : s[j] # sep
         IN <<SubSeq(s, 1, i - 1)>> \o split(SubSeq(s, i + 1, Len(s)), sep)

\* sep.join(parts)
RECURSIVE join(_, _)
join(parts, sep) ==
    IF parts = <<>> THEN <<>>
    ELSE IF Len(parts) = 1 THEN parts[1]
    ELSE parts[1] \o sep \o join(Tail(parts), sep)

Range(f) == {f[i] : i \in DOMAIN f}

\* frequently used literals
DASH == <<"-">>

EMPTY == <<>>

S_nan == <<"n","a","n">>

S_NaN == <<"N","a","N">>

S_nat == <<"n","a","t">>

S_NaT == <<"N","a","T">>

S_None == <<"N","o","n","e">>

Pad2(n) == <<DIGITS[(n \div 10) + 1], DIGITS[(n % 10) + 1]>>

Pad4(n) == <<DIGITS[((n \div 1000) % 10) + 1], DIGITS[((n \div 100) % 10) + 1],
             DIGITS[((n \div 10) % 10) + 1], DIGITS[(n % 10) + 1]>>

\* str(date): ISO form YYYY-MM-DD
IsoText(dt) == Pad4(dt.y) \o <<"-">> \o Pad2(dt.m) \o <<"-">> \o Pad2(dt.d)

\* str(val)
Str(v) ==
    CASE v.t = "None" -> S_None
      [] v.t = "float_nan" -> S_nan
      [] v.t = "NaT" -> S_NaT
      [] v.t = "date" -> IsoText(v)
      [] OTHER -> v.s

(***************************************************************************)
(* pandas / datetime, restricted to the two textual layouts the inputs of  *)
(* the model use: NN/NN/YYYY and YYYY-MM-DD.  Any other text is not a date *)
(* (errors="coerce" gives NaT).                                            *)
(***************************************************************************)
IsLeap(y) == (y % 4 = 0 /\ y % 100 # 0) \/ y % 400 = 0

DaysInMonth(y, m) ==
    CASE m \in {4, 6, 9, 11} -> 30
      [] m = 2 -> IF IsLeap(y) THEN 29 ELSE 28
      [] OTHER -> 31

ValidYMD(y, m, d) == m \in 1..12 /\ d \in 1..DaysInMonth(y, m)

Num2(s, i) == DigitVal(s[i]) * 10 + DigitVal(s[i + 1])

Num4(s, i) == Num2(s, i) * 100 + Num2(s, i + 2)

LooksSlash(s) ==
    /\ Len(s) = 10
    /\ s[3] = "/" /\ s[6] = "/"
    /\ \A i \in {1, 2, 4, 5, 7, 8, 9, 10} : IsDigit(s[i])

LooksIso(s) ==
    /\ Len(s) = 10
    /\ s[5] = "-" /\ s[8] = "-"
    /\ \A i \in {1, 2, 3, 4, 6, 7, 9, 10} : IsDigit(s[i])

\* pd.to_datetime(s, errors="coerce", dayfirst=dayfirst) of a scalar string.
\* NN/NN/YYYY is read month-first unless dayfirst, and the two numbers are
\* exchanged when the preferred reading is not a date; YYYY-MM-DD is ISO.
pd_to_datetime(s, dayfirst) ==
    IF LooksSlash(s)
    THEN LET a == Num2(s, 1)
             b == Num2(s, 4)
             y == Num4(s, 7)
         IN IF dayfirst
            THEN IF ValidYMD(y, b, a) THEN DateOf(y, b, a)
                 ELSE IF ValidYMD(y, a, b) THEN DateOf(y, a, b) ELSE NaT
            ELSE IF ValidYMD(y, a, b) THEN DateOf(y, a, b)
                 ELSE IF ValidYMD(y, b, a) THEN DateOf(y, b, a) ELSE NaT
    ELSE IF LooksIso(s)
    THEN LET y == Num4(s, 1)
             m == Num2(s, 6)
             d == Num2(s, 9)
         IN IF ValidYMD(y, m, d) THEN DateOf(y, m, d) ELSE NaT
    ELSE NaT

\* pd.to_datetime(s, format="%d/%m/%Y", errors="coerce")
pd_to_datetime_format(s) ==
    IF LooksSlash(s) /\ ValidYMD(Num4(s, 7), Num2(s, 4), Num2(s, 1))
    THEN DateOf(Num4(s, 7), Num2(s, 4), Num2(s, 1))
    ELSE NaT

\* d.strftime("%d/%m/%Y")
strftime_dmY(dt) == Pad2(dt.d) \o <<"/">> \o Pad2(dt.m) \o <<"/">> \o Pad4(dt.y)

\* d.strftime("%Y-%m-%d")
strftime_Ymd(dt) == IsoText(dt)

\* a < b on timestamps at midnight
Before(a, b) ==
    \/ a.y < b.y
    \/ a.y = b.y /\ a.m < b.m
    \/ a.y = b.y /\ a.m = b.m /\ a.d < b.d

\* date.today(): the day on which every operation of a behaviour runs
today == DateOf(2025, 6, 6)

(***************************************************************************)
(* Schema                                                                  *)
(***************************************************************************)
EXPECTED_COLS ==
    <<"PRIORIDADE", "SITUACAO", "CNPJ", "NOME_EMPRESA", "SEGMENTO", "DESCRICAO",
      "RESUMO", "METODOLOGIA", "COBERTURA", "SITE", "CONTATOS", "DATA_ASSINATURA",
      "VAL_ANOS", "VAL_MESES", "VAL_DIAS", "INICIO_RENOV", "VIGENCIA", "STATUS",
      "NDA_ASSINADO", "DOCUMENTO", "APROVACAO", "ANALISE_TECNICA",
      "RELACIONAMENTO", "AUTOMACAO", "OBS", "PONTOS_FORTES", "PONTOS_FRACOS",
      "CONCORRENTES", "STATUS_ATUAL">>

DATE_COLS == <<"DATA_ASSINATURA", "INICIO_RENOV", "VIGENCIA">>

ExpectedSet == Range(EXPECTED_COLS)

DateSet == Range(DATE_COLS)

\* spreadsheet header -> table column
ORIGINAL_TO_CANON ==
    <<<<"Prioridade", "PRIORIDADE">>, <<"Situacao~", "SITUACAO">>,
      <<"CNPJ", "CNPJ">>, <<"Nome da Empresa", "NOME_EMPRESA">>,
      <<"Segmento", "SEGMENTO">>, <<"Descricao~", "DESCRICAO">>,
      <<"Resumo", "RESUMO">>, <<"Metodologia", "METODOLOGIA">>,
      <<"Cobertura", "COBERTURA">>, <<"Site", "SITE">>,
      <<"Contatos", "CONTATOS">>, <<"Data de Assinatura", "DATA_ASSINATURA">>,
      <<"Validade em Anos", "VAL_ANOS">>, <<"Validade em Meses", "VAL_MESES">>,
      <<"Validade em Dias", "VAL_DIAS">>,
      <<"Inicio da Renovacao~ da Assinatura", "INICIO_RENOV">>,
      <<"Vigencia^", "VIGENCIA">>, <<"Status", "STATUS">>,
      <<"NDA Assinado", "NDA_ASSINADO">>, <<"Documento", "DOCUMENTO">>,
      <<"Aprovacao~", "APROVACAO">>, <<"Analise tecnica'", "ANALISE_TECNICA">>,
      <<"Relacionamento", "RELACIONAMENTO">>, <<"Automacao~", "AUTOMACAO">>,
      <<"OBS", "OBS">>, <<"Pontos Fortes", "PONTOS_FORTES">>,
      <<"Pontos Fracos", "PONTOS_FRACOS">>, <<"Concorrentes", "CONCORRENTES">>,
      <<"Status Atual", "STATUS_ATUAL">>>>

\* the dictionary ORIGINAL_TO_CANON as a function of its keys
CANON_OF ==
    [h \in {ORIGINAL_TO_CANON[i][1] : i \in 1..Len(ORIGINAL_TO_CANON)} |->
        ORIGINAL_TO_CANON[CHOOSE i \in 1..Len(ORIGINAL_TO_CANON) :
                              ORIGINAL_TO_CANON[i][1] = h][2]]

\* ORIGINAL_TO_CANON.get(c, c)
CanonOf(c) == IF c \in DOMAIN CANON_OF THEN CANON_OF[c] ELSE c

cols_order == <<"ID">> \o EXPECTED_COLS \o <<"CREATED_AT", "UPDATED_AT">>

(***************************************************************************)
(* Segments                                                                *)
(***************************************************************************)
Todos == <<"T","o","d","o","s">>

FornecedorDeSolucoes == <<"F","o","r","n","e","c","e","d","o","r"," ","d",
    "e"," ","S","o","l","u","c,","o~","e","s">>

FornecedorDeDados == <<"F","o","r","n","e","c","e","d","o","r"," ","d","e",
    " ","D","a","d","o","s">>

PotenciaisNovosNegocios == <<"P","o","t","e","n","c","i","a","i","s"," ",
    "N","o","v","o","s"," ","N","e","g","o'","c","i","o","s">>

SemSegmento == <<"S","e","m"," ","S","e","g","m","e","n","t","o">>

key_solucoes == <<"f","o","r","n","e","c","e","d","o","r"," ","d","e"," ",
    "s","o","l","u","c","o","e","s">>

key_solucoes_acc == <<"f","o","r","n","e","c","e","d","o","r"," ","d","e",
    " ","s","o","l","u","c,","o~","e","s">>

key_dados == <<"f","o","r","n","e","c","e","d","o","r"," ","d","e"," ","d",
    "a","d","o","s">>

key_negocios == <<"p","o","t","e","n","c","i","a","i","s"," ","n","o","v",
    "o","s"," ","n","e","g","o","c","i","o","s">>

key_negocios_acc == <<"p","o","t","e","n","c","i","a","i","s"," ","n","o",
    "v","o","s"," ","n","e","g","o'","c","i","o","s">>

key_sem == <<"s","e","m"," ","s","e","g","m","e","n","t","o">>

SEGMENT_FILTERS ==
    <<Todos, FornecedorDeSolucoes, FornecedorDeDados, PotenciaisNovosNegocios,
      SemSegmento>>

SEGMENT_OPTIONS == SelectSeq(SEGMENT_FILTERS, LAMBDA x : x # Todos)

SEG_CANON_MAP ==
    <<<<key_solucoes, FornecedorDeSolucoes>>,
      <<key_solucoes_acc, FornecedorDeSolucoes>>,
      <<key_dados, FornecedorDeDados>>,
      <<key_negocios, PotenciaisNovosNegocios>>,
      <<key_negocios_acc, PotenciaisNovosNegocios>>,
      <<key_sem, SemSegmento>>>>

\* _deaccent_lower without the call of lower()
_deaccent_keep_case(s) ==
    LET l == strip(s)
    IN [i \in 1..Len(l) |-> StripMark(l[i])]


_deaccent_lower(s) ==
    LET l == lower(strip(s))
    IN [i \in 1..Len(l) |-> StripMark(l[i])]

\* sorted(set(xs), key=lambda x: SEG_ORDER.get(x, 999)): the known labels in
\* declaration order, then whatever else there is
RECURSIVE SetToSeq(_)
SetToSeq(S) ==
    IF S = {} THEN <<>>
    ELSE LET x == CHOOSE x \in S : TRUE IN <<x>> \o SetToSeq(S \ {x})

SortedBySegOrder(S) ==
    SelectSeq(SEGMENT_OPTIONS, LAMBDA x : x \in S)
        \o SetToSeq(S \ Range(SEGMENT_OPTIONS))

\* the label a token stands for, <<>> when it stands for none
CanonOfToken(tok) ==
    LET key == _deaccent_lower(tok)
        hit == {i \in 1..Len(SEG_CANON_MAP) : SEG_CANON_MAP[i][1] = key}
        opt == {i \in 1..Len(SEGMENT_OPTIONS) :
                    _deaccent_lower(SEGMENT_OPTIONS[i]) = key}
    IN IF hit # {} THEN SEG_CANON_MAP[CHOOSE i \in hit : TRUE][2]
       ELSE IF opt # {}
            THEN SEGMENT_OPTIONS[CHOOSE i \in opt : \A j \in opt : i <= j]
            ELSE <<>>

normalize_segments(val) ==
    IF val.t = "None" THEN <<SemSegmento>>
    ELSE LET s == strip(Str(val))
         IN IF s = EMPTY \/ s \in {DASH, S_nan, S_NaN} THEN <<SemSegmento>>
            ELSE LET parts == split(s, ",")
                     toks == [i \in 1..Len(parts) |-> strip(parts[i])]
                     out == {CanonOfToken(toks[i]) :
                                 i \in {j \in 1..Len(toks) : toks[j] # EMPTY}}
                                \ {<<>>}
                 IN IF out = {} THEN <<SemSegmento>> ELSE SortedBySegOrder(out)

\* segments_to_str joining with ";" instead of ", "
segments_to_str_semicolon(segments) ==
    join(SortedBySegOrder(Range(segments)), <<";">>)


segments_to_str(segments) ==
    join(SortedBySegOrder(Range(segments)), <<",", " ">>)

(***************************************************************************)
(* Formatting helpers                                                      *)
(***************************************************************************)
\* _s comparing with the sentinels as written, without lower()
_s_case_sensitive(val) ==
    IF val.t = "None" THEN T(DASH)
    ELSE LET s == strip(Str(val))
         IN IF s = EMPTY \/ s \in {S_nan, S_nat} THEN T(DASH) ELSE T(s)


_s(val) ==
    IF val.t = "None" THEN T(DASH)
    ELSE LET s == strip(Str(val))
         IN IF s = EMPTY \/ lower(s) \in {S_nan, S_nat} THEN T(DASH) ELSE T(s)

\* _fmt_date giving "-" for a text that is no date
_fmt_date_dash_on_failure(val) ==
    IF val.t = "None" THEN T(DASH)
    ELSE LET s == strip(Str(val))
         IN IF s = EMPTY \/ lower(s) \in {S_nan, S_nat, DASH} THEN T(DASH)
            ELSE IF IsDate(val) THEN T(strftime_dmY(val))
            ELSE LET d == pd_to_datetime(s, FALSE)
                 IN IF d.t # "NaT" THEN T(strftime_dmY(d)) ELSE T(DASH)


_fmt_date(val) ==
    IF val.t = "None" THEN T(DASH)
    ELSE LET s == strip(Str(val))
         IN IF s = EMPTY \/ lower(s) \in {S_nan, S_nat, DASH} THEN T(DASH)
            ELSE IF IsDate(val) THEN T(strftime_dmY(val))
            ELSE LET d == pd_to_datetime(s, FALSE)
                 IN IF d.t # "NaT" THEN T(strftime_dmY(d)) ELSE _s(val)

_to_datetime(val) ==
    IF val.t = "None" THEN NaT
    ELSE LET s == strip(Str(val))
         IN IF s = EMPTY \/ lower(s) \in {S_nan, S_nat, DASH} THEN NaT
            ELSE pd_to_datetime(s, TRUE)

EM_NEGOCIACAO == <<"E","M"," ","N","E","G","O","C","I","A","C,","A~","O">>

EM_VIGENCIA == <<"E","M"," ","V","I","G","E^","N","C","I","A">>

SOLICITAR_RENOVACAO == <<"S","O","L","I","C","I","T","A","R"," ","R","E",
    "N","O","V","A","C,","A~","O">>

ATRASADO == <<"A","T","R","A","S","A","D","O">>

STATUSES == {EM_NEGOCIACAO, EM_VIGENCIA, SOLICITAR_RENOVACAO, ATRASADO, DASH}

\* _calc_status_like_excel testing the expired rule before the renewal rules
_calc_status_expired_first(data_ass, inicio_renov, vigencia) ==
    LET da == _to_datetime(data_ass)
        ir == _to_datetime(inicio_renov)
        vg == _to_datetime(vigencia)
    IN IF da.t = "NaT" THEN T(EM_NEGOCIACAO)
       ELSE IF vg.t # "NaT" /\ Before(vg, today) THEN T(ATRASADO)
       ELSE IF ir.t # "NaT" /\ Before(today, ir) THEN T(EM_VIGENCIA)
       ELSE IF (ir.t # "NaT" /\ Before(ir, today))
               /\ (vg.t # "NaT" /\ Before(today, vg)) THEN T(SOLICITAR_RENOVACAO)
       ELSE T(DASH)

_calc_status_like_excel(data_ass, inicio_renov, vigencia) ==
    LET da == _to_datetime(data_ass)
        ir == _to_datetime(inicio_renov)
        vg == _to_datetime(vigencia)
    IN IF da.t = "NaT" THEN T(EM_NEGOCIACAO)
       ELSE IF ir.t # "NaT" /\ Before(today, ir) THEN T(EM_VIGENCIA)
       ELSE IF (ir.t # "NaT" /\ Before(ir, today))
               /\ (vg.t # "NaT" /\ Before(today, vg)) THEN T(SOLICITAR_RENOVACAO)
       ELSE IF vg.t # "NaT" /\ Before(vg, today) THEN T(ATRASADO)
       ELSE T(DASH)

(***************************************************************************)
(* Snowflake                                                               *)
(***************************************************************************)
\* _sf_escape: every quote is doubled
RECURSIVE _sf_escape(_)
_sf_escape(s) ==
    IF s = <<>> THEN <<>>
    ELSE IF Head(s) = "'" THEN <<"'", "'">> \o _sf_escape(Tail(s))
    ELSE <<Head(s)>> \o _sf_escape(Tail(s))

\* the text a quoted SQL literal with body s denotes: '' stands for one quote
RECURSIVE SqlLiteralText(_)
SqlLiteralText(s) ==
    IF s = <<>> THEN <<>>
    ELSE IF Len(s) >= 2 /\ s[1] = "'" /\ s[2] = "'"
         THEN <<"'">> \o SqlLiteralText(SubSeq(s, 3, Len(s)))
    ELSE <<Head(s)>> \o SqlLiteralText(Tail(s))

\* the value of the column after  col = '<_sf_escape(v)>'
SqlText(v) == T(SqlLiteralText(_sf_escape(Str(v))))

\* TO_DATE('YYYY-MM-DD')
TO_DATE(s) ==
    IF LooksIso(s) /\ ValidYMD(Num4(s, 1), Num2(s, 6), Num2(s, 9))
    THEN DateOf(Num4(s, 1), Num2(s, 6), Num2(s, 9))
    ELSE None

\* CURRENT_TIMESTAMP() / pd.Timestamp.utcnow() at clock value n
Timestamp(n) == [t |-> "ts", n |-> n]

\* uuid4().hex: the n-th identifier drawn
uuid4(n) == T(<<"u">> \o Pad2(n))

ColsSet == Range(cols_order)

\* dict.get(k) / row.get(k)
Get(d, k) == IF k \in DOMAIN d THEN d[k] ELSE None

(***************************************************************************)
(* DataFrames: [columns |-> set of names, rows |-> sequence of rows], a    *)
(* row being a function from the columns to cell values.                   *)
(***************************************************************************)
\* rename_columns without the ORIGINAL_TO_CANON lookup
rename_columns_as_given(df) == df

\* df.rename(columns={c: ORIGINAL_TO_CANON.get(c, c)})
rename_columns(df) ==
    LET newcols == {CanonOf(h) : h \in df.columns}
    IN [columns |-> newcols,
        rows |-> [i \in 1..Len(df.rows) |->
                    [c \in newcols |->
                        df.rows[i][CHOOSE h \in df.columns : CanonOf(h) = c]]]]

\* for c in EXPECTED_COLS: if c not in df.columns: df[c] = default
ensure_expected(df, date_default, other_default) ==
    [columns |-> df.columns \cup ExpectedSet,
     rows |-> [i \in 1..Len(df.rows) |->
                 [c \in df.columns \cup ExpectedSet |->
                    IF c \in df.columns THEN df.rows[i][c]
                    ELSE IF c \in DateSet THEN date_default ELSE other_default]]]

\* one cell of  pd.to_datetime(col.apply(_fmt_date), format="%d/%m/%Y",
\* errors="coerce").dt.date  with NaT replaced by None
date_cell(v) ==
    LET d == pd_to_datetime_format(_fmt_date(v).s)
    IN IF d.t = "NaT" THEN None ELSE d

\* "-" if (v is None or str(v).strip() in {"", "nan", "NaN", "NaT"})
\* else str(v).strip()
clean_cell(v) ==
    IF v.t = "None" \/ strip(Str(v)) \in {EMPTY, S_nan, S_NaN, S_NaT}
    THEN T(DASH) ELSE T(strip(Str(v)))

dates_of_row(row) ==
    [c \in DOMAIN row |-> IF c \in DateSet THEN date_cell(row[c]) ELSE row[c]]

status_of_row(row) ==
    [row EXCEPT !["STATUS"] =
        _calc_status_like_excel(Get(row, "DATA_ASSINATURA"),
                                Get(row, "INICIO_RENOV"), Get(row, "VIGENCIA"))]

segment_of_row(row) ==
    [row EXCEPT !["SEGMENTO"] = T(segments_to_str(normalize_segments(@)))]

clean_row(row) ==
    [c \in DOMAIN row |->
        IF c \in ExpectedSet \ DateSet THEN clean_cell(row[c]) ELSE row[c]]

\* import_to_sf_append(df): the rows appended to TB_EMPRESAS, the k-th row
\* taking the identifier uuid4(first_uuid + k - 1) when the frame has no ID
\* column
\* import_to_sf_append writing all rows but the last
import_to_sf_append_drop_last(df, first_uuid, now_ts) ==
    LET df2 == ensure_expected(rename_columns(df), None, T(DASH))
        has_id == "ID" \in df2.columns
        finish(row, k) ==
            [c \in ColsSet |->
                IF c = "ID" THEN (IF has_id THEN row["ID"]
                                  ELSE uuid4(first_uuid + k - 1))
                ELSE IF c \in {"CREATED_AT", "UPDATED_AT"} THEN Timestamp(now_ts)
                ELSE row[c]]
    IN [k \in 1..(Len(df2.rows) - 1) |->
           finish(clean_row(segment_of_row(status_of_row(
                      dates_of_row(df2.rows[k])))), k)]

import_to_sf_append(df, first_uuid, now_ts) ==
    LET df2 == ensure_expected(rename_columns(df), None, T(DASH))
        has_id == "ID" \in df2.columns
        finish(row, k) ==
            [c \in ColsSet |->
                IF c = "ID" THEN (IF has_id THEN row["ID"]
                                  ELSE uuid4(first_uuid + k - 1))
                ELSE IF c \in {"CREATED_AT", "UPDATED_AT"} THEN Timestamp(now_ts)
                ELSE row[c]]
    IN [k \in 1..Len(df2.rows) |->
           finish(clean_row(segment_of_row(status_of_row(
                      dates_of_row(df2.rows[k])))), k)]

\* lines 731-765 of the sidebar: what is handed to import_to_sf_append
sidebar_prepare(df) ==
    LET df_view == ensure_expected(rename_columns(df), T(DASH), T(DASH))
    IN [columns |-> df_view.columns,
        rows |-> [k \in 1..Len(df_view.rows) |->
                    segment_of_row(clean_row(status_of_row(
                        dates_of_row(df_view.rows[k]))))]]

\* _date_sql handing a text that is no date on to the INSERT
_date_sql_keep_text(v) ==
    IF v.t = "None" \/ (v.t = "str" /\ v.s \in {DASH, EMPTY}) THEN None
    ELSE LET d == pd_to_datetime(Str(v), TRUE)
         IN IF d.t # "NaT" THEN TO_DATE(strftime_Ymd(d)) ELSE v

\* _date_sql of _insert_record_main
_date_sql(v) ==
    IF v.t = "None" \/ (v.t = "str" /\ v.s \in {DASH, EMPTY}) THEN None
    ELSE LET d == pd_to_datetime(Str(v), TRUE)
         IN IF d.t # "NaT" THEN TO_DATE(strftime_Ymd(d)) ELSE None

\* _insert_record_main(record): the row inserted into TB_EMPRESAS
_insert_record_main(record, rec_id, now_ts) ==
    LET row0 == [c \in ExpectedSet |-> _s(Get(record, c))]
        row1 == [c \in ExpectedSet |->
                    IF c \in DateSet THEN _fmt_date(row0[c]) ELSE row0[c]]
        row2 == status_of_row(row1)
        row3 == segment_of_row(row2)
        row == clean_row(row3)
    IN [c \in ColsSet |->
          IF c = "ID" THEN rec_id
          ELSE IF c \in {"CREATED_AT", "UPDATED_AT"} THEN Timestamp(now_ts)
          ELSE IF c \in DateSet THEN _date_sql(row[c])
          ELSE SqlText(row[c])]

\* the value one SET part of _update_record assigns
set_part(k, v, now_ts) ==
    IF k \in DateSet
    THEN IF v.t = "None"
            \/ (v.t = "str" /\ v.s \in {DASH, EMPTY, S_nan, S_NaN, S_NaT})
         THEN None
         ELSE LET d == pd_to_datetime(Str(v), TRUE)
              IN IF d.t # "NaT" THEN TO_DATE(strftime_Ymd(d)) ELSE None
    ELSE IF k \in {"CREATED_AT", "UPDATED_AT"} THEN Timestamp(now_ts)
    ELSE SqlText(v)

\* "if not rec_id": None and the empty string are falsy
Falsy(v) == v.t = "None" \/ (v.t = "str" /\ v.s = EMPTY)

\* _update_record without the WHERE clause
_update_record_every_row(tbl, rec_id, updates, now_ts) ==
    IF DOMAIN updates = {} THEN tbl
    ELSE LET keys == {k \in DOMAIN updates :
                         k \in ExpectedSet \/ k \in {"CREATED_AT", "UPDATED_AT"}}
                     \cup {"UPDATED_AT"}
             newval(k) == set_part(k, Get(updates, k), now_ts)
         IN [i \in 1..Len(tbl) |->
               [c \in ColsSet |->
                   IF c \in keys THEN newval(c) ELSE tbl[i][c]]]

\* _update_record(rec_id, updates): the table after the UPDATE.  The caller
\* checks Falsy(rec_id) first, where the code raises ValueError.
_update_record(tbl, rec_id, updates, now_ts) ==
    IF DOMAIN updates = {} THEN tbl
    ELSE LET keys == {k \in DOMAIN updates :
                         k \in ExpectedSet \/ k \in {"CREATED_AT", "UPDATED_AT"}}
                     \cup {"UPDATED_AT"}
             newval(k) == set_part(k, Get(updates, k), now_ts)
             wanted == SqlText(rec_id)
         IN [i \in 1..Len(tbl) |->
               IF tbl[i]["ID"] = wanted
               THEN [c \in ColsSet |->
                       IF c \in keys THEN newval(c) ELSE tbl[i][c]]
               ELSE tbl[i]]

\* _insert_comment: the comments table after the call
_insert_comment(cs, com_id, empresa_id, username, name, message, now_ts) ==
    IF strip(Str(message)) = EMPTY THEN cs
    ELSE Append(cs, [ID |-> com_id,
                     EMPRESA_ID |-> SqlText(empresa_id),
                     USERNAME |-> username,
                     NAME |-> name,
                     MESSAGE |-> SqlText(T(strip(Str(message)))),
                     CREATED_AT |-> Timestamp(now_ts)])

\* _fetch_comments: WHERE EMPRESA_ID = ... ORDER BY CREATED_AT DESC
RECURSIVE newest_first(_)
newest_first(cs) ==
    IF cs = <<>> THEN <<>>
    ELSE LET i == CHOOSE i \in 1..Len(cs) :
                     \A j \in 1..Len(cs) : cs[j].CREATED_AT.n <= cs[i].CREATED_AT.n
         IN <<cs[i]>> \o newest_first(SubSeq(cs, 1, i - 1)
                                         \o SubSeq(cs, i + 1, Len(cs)))

\* _fetch_comments without the WHERE clause
_fetch_comments_of_all(cs, empresa_id) == newest_first(cs)

_fetch_comments(cs, empresa_id) ==
    newest_first(SelectSeq(cs, LAMBDA c : c.EMPRESA_ID = SqlText(empresa_id)))

(***************************************************************************)
(* Streamlit handlers                                                      *)
(***************************************************************************)
USERS ==
    [u \in {"spdo_visual", "spdo_admin"} |->
        IF u = "spdo_visual"
        THEN [password |-> "123", name |-> "SPDO Visual", role |-> "visual"]
        ELSE [password |-> "123", name |-> "SPDO Admin", role |-> "admin"]]

\* st.session_state.auth after ensure_state()
NoAuth == [is_auth |-> FALSE, user |-> "-"]

is_admin == auth.is_auth /\ USERS[auth.user].role = "admin"

\* str(n) for a slider value
IntText(n) == <<DIGITS[n + 1]>>

isdigit(s) == s # <<>> /\ \A i \in 1..Len(s) : IsDigit(s[i])

RECURSIVE IntOf(_)
IntOf(s) == IF s = <<>> THEN 0 ELSE IntOf(SubSeq(s, 1, Len(s) - 1)) * 10 + DigitVal(s[Len(s)])

\* the text widgets of the two forms
CreateTextCols == ExpectedSet \ {"PRIORIDADE", "SEGMENTO", "STATUS"}

EditTextCols == ExpectedSet \ {"PRIORIDADE", "SEGMENTO"}

\* create_rejected without the test of the segments
create_rejected_name_only(w) == strip(w.text["NOME_EMPRESA"].s) = EMPTY

\* open_create_dialog: the submission is refused (lines 879-885)
create_rejected(w) ==
    \/ w.segmentos_ms = <<>>
    \/ strip(w.text["NOME_EMPRESA"].s) = EMPTY

\* open_create_dialog: the record handed to _insert_record_main (887-917)
create_record(w) ==
    [c \in ExpectedSet |->
        IF c = "PRIORIDADE" THEN T(IntText(w.prioridade))
        ELSE IF c = "SEGMENTO" THEN T(segments_to_str(w.segmentos_ms))
        ELSE IF c = "STATUS" THEN T(DASH)
        ELSE _s(w.text[c])]

\* open_company_dialog: value of the priority slider (line 488)
edit_prioridade(rec) ==
    IF isdigit(_s(Get(rec, "PRIORIDADE")).s)
    THEN IntOf(Str(Get(rec, "PRIORIDADE"))) ELSE 3

\* open_company_dialog: the widgets as first drawn for rec (485-539)
edit_defaults(rec) ==
    [text |-> [c \in EditTextCols |-> _s(Get(rec, c))],
     prioridade |-> edit_prioridade(rec),
     segmentos_ms |-> normalize_segments(Get(rec, "SEGMENTO"))]

\* edit_updates taking STATUS from the Status box
edit_updates_typed_status(w) ==
    LET data_ass_n == _fmt_date(w.text["DATA_ASSINATURA"])
        inicio_renov_n == _fmt_date(w.text["INICIO_RENOV"])
        vigencia_n == _fmt_date(w.text["VIGENCIA"])
    IN [c \in ExpectedSet |->
          IF c = "PRIORIDADE" THEN T(IntText(w.prioridade))
          ELSE IF c = "SEGMENTO" THEN T(segments_to_str(w.segmentos_ms))
          ELSE IF c = "DATA_ASSINATURA" THEN data_ass_n
          ELSE IF c = "INICIO_RENOV" THEN inicio_renov_n
          ELSE IF c = "VIGENCIA" THEN vigencia_n
          ELSE _s(w.text[c])]

\* open_company_dialog: the updates dictionary built on save (557-592)
edit_updates(w) ==
    LET data_ass_n == _fmt_date(w.text["DATA_ASSINATURA"])
        inicio_renov_n == _fmt_date(w.text["INICIO_RENOV"])
        vigencia_n == _fmt_date(w.text["VIGENCIA"])
        status_calc == _calc_status_like_excel(data_ass_n, inicio_renov_n,
                                               vigencia_n)
    IN [c \in ExpectedSet |->
          IF c = "PRIORIDADE" THEN T(IntText(w.prioridade))
          ELSE IF c = "SEGMENTO" THEN T(segments_to_str(w.segmentos_ms))
          ELSE IF c = "DATA_ASSINATURA" THEN data_ass_n
          ELSE IF c = "INICIO_RENOV" THEN inicio_renov_n
          ELSE IF c = "VIGENCIA" THEN vigencia_n
          ELSE IF c = "STATUS" THEN status_calc
          ELSE _s(w.text[c])]

edit_rejected(w) == w.segmentos_ms = <<>>

(***************************************************************************)
(* Inputs: the texts typed into the forms and found in spreadsheet cells   *)
(***************************************************************************)
txt_Acme == <<"A","c","m","e">>

txt_Beta == <<"B","e","t","a">>

txt_abc == <<"a","b","c">>

txt_ATIVO == <<"A","T","I","V","O">>

txt_NAN == <<"N","A","N">>

txt_x_padded == <<" ","x"," ">>

txt_blank == <<" "," ">>

txt_dados_twice == <<"f","o","r","n","e","c","e","d","o","r"," ","d","e",
    " ","d","a","d","o","s",","," ","F","O","R","N","E","C","E","D","O","R",
    " ","D","E"," ","D","A","D","O","S">>

txt_unknown_seg == <<"x","y","z",","," ","c","o","n","s","u","l","t","o",
    "r","i","a">>

txt_mixed_seg == <<" ","S","e","m"," ","S","e","g","m","e","n","t","o"," ",
    ",","f","o","r","n","e","c","e","d","o","r"," ","d","e"," ","s","o","l",
    "u","c","o","e","s",",",","," ","x","y","z">>

\* a calendar date written day first, DD/MM/YYYY
DDMMYYYY(dt) == Pad2(dt.d) \o <<"/">> \o Pad2(dt.m) \o <<"/">> \o Pad4(dt.y)

\* dates around today: the first two have a day above 12, the next two a day
\* of 12 or less
d_20_may == DateOf(2025, 5, 20)

d_20_jul == DateOf(2025, 7, 20)

d_07_may == DateOf(2025, 5, 7)

d_05_jul == DateOf(2025, 7, 5)

\* what is typed in the three date boxes (signing, renewal start, valid
\* until), or found in the three date cells of a spreadsheet row
dates_none == <<T(DASH), T(DASH), T(DASH)>>

dates_renewal_in_july == <<T(DDMMYYYY(d_20_may)), T(DDMMYYYY(d_05_jul)), T(DASH)>>

dates_renewal_in_may ==
    <<T(DDMMYYYY(d_20_may)), T(DDMMYYYY(d_07_may)), T(DDMMYYYY(d_20_jul))>>

dates_renewal_due ==
    <<T(DDMMYYYY(d_20_may)), T(DDMMYYYY(d_20_may)), T(DDMMYYYY(d_20_jul))>>

dates_expired == <<T(DDMMYYYY(d_20_may)), T(txt_abc), T(DDMMYYYY(d_20_may))>>

dates_unsigned == <<T(txt_abc), T(DDMMYYYY(d_20_jul)), T(DDMMYYYY(d_20_jul))>>

dates_today == <<T(DDMMYYYY(d_20_may)), T(DDMMYYYY(today)), T(DDMMYYYY(today))>>

LegacyHeaders == {ORIGINAL_TO_CANON[i][1] : i \in 1..Len(ORIGINAL_TO_CANON)}

\* the cell of a spreadsheet row under a header, for the row described by p
RawCell(h, p) ==
    LET c == CanonOf(h)
    IN CASE c = "NOME_EMPRESA" -> p.nome
         [] c = "SEGMENTO" -> p.seg
         [] c = "STATUS" -> p.status
         [] c = "DATA_ASSINATURA" -> p.dates[1]
         [] c = "INICIO_RENOV" -> p.dates[2]
         [] c = "VIGENCIA" -> p.dates[3]
         [] OTHER -> p.other

RawRow(columns, p) == [h \in columns |-> RawCell(h, p)]

RowParams(nome, seg, status, dates, other) ==
    [nome |-> nome, seg |-> seg, status |-> status, dates |-> dates,
     other |-> other]

\* pd.read_excel(..., dtype=str): every cell is a string or NaN
Sheet(columns, params) ==
    [columns |-> columns,
     rows |-> [k \in 1..Len(params) |-> RawRow(columns, params[k])]]

\* the uploaded files: content hash, whether openpyxl can read it, the sheet
FILES ==
    {[digest |-> "sha_legacy", readable |-> TRUE,
      df |-> Sheet(LegacyHeaders \cup {"Coluna Extra"},
                   <<RowParams(T(txt_Acme), T(txt_dados_twice), T(txt_ATIVO),
                               dates_renewal_in_july, T(txt_x_padded)),
                     RowParams(T(txt_Beta), T(txt_unknown_seg), NaN,
                               <<NaN, T(DASH), T(DASH)>>, T(txt_NAN))>>)],
     [digest |-> "sha_partial", readable |-> TRUE,
      df |-> Sheet({"ID", "NOME_EMPRESA", "Vigencia^", "Site"},
                   <<RowParams(T(txt_Beta), NaN, NaN,
                               <<NaN, NaN, T(txt_abc)>>, T(txt_x_padded))>>)],
     [digest |-> "sha_broken", readable |-> FALSE,
      df |-> Sheet({}, <<>>)]}

\* the create form as submitted: every box at its default except the name,
\* the dates, OBS and the segments
CreateWidgets(nome, dates, obs, segs) ==
    [text |-> [c \in CreateTextCols |->
                 IF c = "NOME_EMPRESA" THEN nome
                 ELSE IF c = "CNPJ" THEN T(EMPTY)
                 ELSE IF c = "DATA_ASSINATURA" THEN dates[1]
                 ELSE IF c = "INICIO_RENOV" THEN dates[2]
                 ELSE IF c = "VIGENCIA" THEN dates[3]
                 ELSE IF c = "OBS" THEN obs
                 ELSE T(DASH)],
     prioridade |-> 0,
     segmentos_ms |-> segs]

CREATE_FORMS ==
    {CreateWidgets(T(txt_Acme), dates_renewal_in_may, T(txt_NAN),
                   <<FornecedorDeDados>>),
     CreateWidgets(T(txt_Beta), dates_renewal_due, T(DASH),
                   <<SemSegmento, FornecedorDeSolucoes>>),
     CreateWidgets(T(DASH), dates_expired, T(txt_x_padded),
                   <<PotenciaisNovosNegocios, FornecedorDeDados,
                     FornecedorDeSolucoes>>),
     CreateWidgets(T(txt_blank), dates_none, T(DASH), <<FornecedorDeDados>>),
     CreateWidgets(T(txt_Acme), dates_none, T(DASH), <<>>)}

\* what the user changes in the edit form before saving: boxes retyped, and
\* the segments picked (or left as drawn)
EditWidgets(rec, typed, keep_segs, segs) ==
    LET w == edit_defaults(rec)
    IN [text |-> [c \in EditTextCols |->
                    IF c \in DOMAIN typed THEN typed[c] ELSE w.text[c]],
        prioridade |-> w.prioridade,
        segmentos_ms |-> IF keep_segs THEN w.segmentos_ms ELSE segs]

TypedDates(dates) ==
    [c \in DateSet |->
        IF c = "DATA_ASSINATURA" THEN dates[1]
        ELSE IF c = "INICIO_RENOV" THEN dates[2] ELSE dates[3]]

NothingTyped == [c \in {} |-> T(EMPTY)]

EDIT_TYPED ==
    {[c \in {"STATUS"} |-> T(txt_ATIVO)],
     TypedDates(dates_unsigned), TypedDates(dates_today)}

\* what the segment box is changed to: emptied, or two labels picked
EDIT_SEGS == {<<>>, <<SemSegmento, FornecedorDeSolucoes>>}

COMMENT_TEXTS == {T(txt_abc), T(txt_blank)}

(***************************************************************************)
(* The program: one browser session over the two Snowflake tables.         *)
(*   table             rows of TB_EMPRESAS, in insertion order             *)
(*   comments          rows of TB_EMPRESAS_COMENTARIOS                     *)
(*   auth, processed_hashes, upload_key     st.session_state               *)
(*   uuid_counter      how many uuid4() values were drawn                  *)
(*   now               the clock read by utcnow() / CURRENT_TIMESTAMP()    *)
(*   last              the last handler that ran, its input and the rows   *)
(*                     of table it wrote (history, read by no handler)     *)
(*   call              the last helper evaluated on its own (SpecHelpers)  *)
(***************************************************************************)
MaxTime == 2

NoCall == [fn |-> "none"]

NoOp == [op |-> "none", rows |-> {}]

Init ==
    /\ table = <<>>
    /\ comments = <<>>
    /\ auth = NoAuth
    /\ processed_hashes = {}
    /\ upload_key = 0
    /\ uuid_counter = 0
    /\ now = 0
    /\ last = NoOp
    /\ call = NoCall

\* login form (lines 690-702)
Login(username, password) ==
    /\ ~auth.is_auth
    /\ IF username \in DOMAIN USERS /\ password = USERS[username].password
       THEN auth' = [is_auth |-> TRUE, user |-> username]
       ELSE auth' = auth
    /\ UNCHANGED <<table, comments, processed_hashes, upload_key,
                   uuid_counter, now, last, call>>

\* "Sair" (lines 706-709): session_state.clear(); ensure_state()
Logout ==
    /\ auth.is_auth
    /\ auth' = NoAuth
    /\ processed_hashes' = {}
    /\ upload_key' = 0
    /\ UNCHANGED <<table, comments, uuid_counter, now, last, call>>

\* sidebar upload of a file already imported in this session (723-724)
ImportDuplicate(f) ==
    /\ auth.is_auth
    /\ f.digest \in processed_hashes
    /\ last' = [op |-> "import_duplicate", rows |-> {}, file |-> f.digest]
    /\ UNCHANGED <<table, comments, auth, processed_hashes, upload_key,
                   uuid_counter, now, call>>

\* sidebar upload of a file that cannot be read (726-727, 778-779)
ImportFailed(f) ==
    /\ auth.is_auth
    /\ f.digest \notin processed_hashes
    /\ ~f.readable
    /\ last' = [op |-> "import_failed", rows |-> {}, file |-> f.digest]
    /\ UNCHANGED <<table, comments, auth, processed_hashes, upload_key,
                   uuid_counter, now, call>>

\* an import that leaves processed_hashes as it was
processed_hashes_unmarked(hashes, digest) == hashes

\* st.session_state.processed_hashes.add(digest) (line 771)
processed_hashes_add(hashes, digest) == hashes \cup {digest}

\* sidebar upload, read and appended (726-776)
Import(f) ==
    /\ auth.is_auth
    /\ f.digest \notin processed_hashes
    /\ f.readable
    /\ now < MaxTime
    /\ LET df_view == sidebar_prepare(f.df)
           written == import_to_sf_append(df_view, uuid_counter + 1, now + 1)
       IN /\ table' = table \o written
          /\ uuid_counter' = IF "ID" \in df_view.columns THEN uuid_counter
                             ELSE uuid_counter + Len(written)
          /\ last' = [op |-> "import",
                      rows |-> (Len(table) + 1)..(Len(table) + Len(written)),
                      input |-> f.df, file |-> f.digest]
    /\ now' = now + 1
    /\ processed_hashes' = processed_hashes_add(processed_hashes, f.digest)
    /\ upload_key' = upload_key + 1
    /\ UNCHANGED <<comments, auth, call>>

\* create dialog, submission refused (879-885)
CreateRejected(w) ==
    /\ is_admin
    /\ create_rejected(w)
    /\ last' = [op |-> "create_rejected", rows |-> {}, input |-> w]
    /\ UNCHANGED <<table, comments, auth, processed_hashes, upload_key,
                   uuid_counter, now, call>>

\* create dialog, saved (887-922)
Create(w) ==
    /\ is_admin
    /\ ~create_rejected(w)
    /\ now < MaxTime
    /\ table' = Append(table, _insert_record_main(create_record(w),
                                                  uuid4(uuid_counter + 1), now + 1))
    /\ uuid_counter' = uuid_counter + 1
    /\ now' = now + 1
    /\ last' = [op |-> "create", rows |-> {Len(table) + 1}, input |-> w]
    /\ UNCHANGED <<comments, auth, processed_hashes, upload_key, call>>

\* the priority slider only takes the values 0..3: with any other stored
\* number the edit form is not drawn
EditFormDrawn(rec) == edit_prioridade(rec) \in 0..3

\* edit dialog of the i-th row, save refused (593-595)
EditRejected(i, typed, keep_segs, segs) ==
    /\ is_admin
    /\ i \in 1..Len(table)
    /\ EditFormDrawn(table[i])
    /\ LET w == EditWidgets(table[i], typed, keep_segs, segs)
       IN /\ edit_rejected(w)
          /\ last' = [op |-> "edit_rejected", rows |-> {}, input |-> w]
    /\ UNCHANGED <<table, comments, auth, processed_hashes, upload_key,
                   uuid_counter, now, call>>

\* edit dialog of the i-th row, saved (556-599)
Edit(i, typed, keep_segs, segs) ==
    /\ is_admin
    /\ i \in 1..Len(table)
    /\ EditFormDrawn(table[i])
    /\ now < MaxTime
    /\ ~Falsy(table[i]["ID"])
    /\ LET w == EditWidgets(table[i], typed, keep_segs, segs)
       IN /\ ~edit_rejected(w)
          /\ table' = _update_record(table, table[i]["ID"], edit_updates(w),
                                     now + 1)
          /\ last' = [op |-> "edit",
                      rows |-> {j \in 1..Len(table) :
                                    table[j]["ID"] = SqlText(table[i]["ID"])},
                      input |-> w]
    /\ now' = now + 1
    /\ UNCHANGED <<comments, auth, processed_hashes, upload_key,
                   uuid_counter, call>>

\* comment box of the i-th row (607-618)
Comment(i, txt) ==
    /\ is_admin
    /\ i \in 1..Len(table)
    /\ now < MaxTime
    /\ strip(Str(txt)) # EMPTY
    /\ comments' = _insert_comment(comments, uuid4(uuid_counter + 1),
                                   table[i]["ID"], auth.user,
                                   USERS[auth.user].name, T(strip(Str(txt))),
                                   now + 1)
    /\ uuid_counter' = uuid_counter + 1
    /\ now' = now + 1
    /\ last' = [op |-> "comment", rows |-> {}, input |-> txt]
    /\ UNCHANGED <<table, auth, processed_hashes, upload_key, call>>

Next ==
    \/ \E u \in {"spdo_visual", "spdo_admin", "guest"}, pw \in {"123", "abc"} :
           Login(u, pw)
    \/ Logout
    \/ \E f \in FILES : ImportDuplicate(f)
    \/ \E f \in FILES : ImportFailed(f)
    \/ \E f \in FILES : Import(f)
    \/ \E w \in CREATE_FORMS : CreateRejected(w)
    \/ \E w \in CREATE_FORMS : Create(w)
    \/ \E i \in 1..Len(table), segs \in EDIT_SEGS :
           EditRejected(i, NothingTyped, FALSE, segs)
    \/ \E i \in 1..Len(table), typed \in EDIT_TYPED :
           Edit(i, typed, TRUE, <<>>)
    \/ \E i \in 1..Len(table), segs \in EDIT_SEGS :
           Edit(i, NothingTyped, FALSE, segs)
    \/ \E i \in 1..Len(table), txt \in COMMENT_TEXTS : Comment(i, txt)

Spec == Init /\ [][Next]_vars

(***************************************************************************)
(* The helpers on their own: a behaviour evaluates one helper on one input *)
(* and keeps the input and the result in call.                             *)
(***************************************************************************)
MaxCore == 3

MaxPad == 1

MaxToks == 2

\* all texts of at most n characters over alphabet A
RECURSIVE TextsUpTo(_, _)
TextsUpTo(A, n) ==
    IF n = 0 THEN {<<>>}
    ELSE LET shorter == TextsUpTo(A, n - 1)
         IN shorter \cup {Append(t, c) : t \in shorter, c \in A}

Spaces(n) == [i \in 1..n |-> " "]

\* inputs of _s: None, NaN, NaT, a date, and every text made of at most
\* MaxPad blanks, at most MaxCore characters, at most MaxPad blanks
S_ALPHABET == {" ", "n", "a", "N", "t", "x"}

S_INPUTS ==
    {None, NaN, NaT, d_05_jul}
    \cup {T(Spaces(l) \o core \o Spaces(r)) :
              l \in 0..MaxPad, r \in 0..MaxPad,
              core \in TextsUpTo(S_ALPHABET, MaxCore)
                           \cup {DASH, S_NaT, txt_NAN, txt_ATIVO}}

\* inputs of _fmt_date, each with what it is: nothing (null, blank or a
\* sentinel), a date (with the reading pandas gives it month-first) or a text
\* that is no date
txt_31_02 == <<"3","1","/","0","2","/","2","0","2","5">>

txt_13_13 == <<"1","3","/","1","3","/","2","0","2","5">>

FmtInput(v, kind, dt) == [val |-> v, kind |-> kind, date |-> dt]

SwapDayMonth(dt) == DateOf(dt.y, dt.d, dt.m)

SAMPLE_DATES == {d_20_may, d_20_jul, d_07_may, d_05_jul, today}

FMT_INPUTS ==
    {FmtInput(v, "nothing", NaT) :
         v \in {None, NaN, NaT, T(EMPTY), T(txt_blank), T(DASH), T(S_nan),
                T(S_NaT), T(txt_NAN), T(<<" ", "-", " ">>)}}
    \cup {FmtInput(dt, "date", dt) : dt \in SAMPLE_DATES}
    \cup {FmtInput(T(Spaces(l) \o IsoText(dt) \o Spaces(r)), "date", dt) :
              dt \in SAMPLE_DATES, l \in 0..MaxPad, r \in 0..MaxPad}
    \cup {FmtInput(T(Spaces(l) \o DDMMYYYY(dt) \o Spaces(r)), "date",
                   IF dt.d <= 12 THEN SwapDayMonth(dt) ELSE dt) :
              dt \in SAMPLE_DATES, l \in 0..MaxPad, r \in 0..MaxPad}
    \cup {FmtInput(T(Spaces(l) \o core \o Spaces(r)), "text", NaT) :
              l \in 0..MaxPad, r \in 0..MaxPad,
              core \in {txt_abc, txt_31_02, txt_13_13, txt_ATIVO}}

\* inputs of normalize_segments: at most MaxToks tokens joined by commas, each
\* token with the label it stands for (<<>> when it stands for none)
tok_dados_upper == <<"F","O","R","N","E","C","E","D","O","R"," ","D","E",
    " ","D","A","D","O","S">>

tok_solucoes_plain == <<" ","f","o","r","n","e","c","e","d","o","r"," ","d",
    "e"," ","s","o","l","u","c","o","e","s"," ">>

tok_solucoes_upper_acc == <<"F","O","R","N","E","C","E","D","O","R"," ","D",
    "E"," ","S","O","L","U","C,","O~","E","S">>

tok_negocios_mixed == <<"p","o","t","e","n","c","i","a","i","s"," ","N","O",
    "V","O","S"," ","n","e","g","o'","c","i","o","s">>

tok_sem_padded == <<" "," ","s","e","m"," ","s","e","g","m","e","n","t",
    "o">>

tok_xyz == <<"x","y","z">>

tok_dados_typo == <<"F","o","r","n","e","c","e","d","o","r"," ","d","e"," ",
    "D","a","d","o">>

Token(text, label) == [text |-> text, label |-> label]

SEG_TOKENS ==
    {Token(FornecedorDeSolucoes, FornecedorDeSolucoes),
     Token(tok_solucoes_plain, FornecedorDeSolucoes),
     Token(tok_solucoes_upper_acc, FornecedorDeSolucoes),
     Token(tok_dados_upper, FornecedorDeDados),
     Token(tok_negocios_mixed, PotenciaisNovosNegocios),
     Token(tok_sem_padded, SemSegmento),
     Token(tok_xyz, <<>>), Token(tok_dados_typo, <<>>),
     Token(<<" ">>, <<>>), Token(DASH, <<>>), Token(S_nan, <<>>)}

RECURSIVE TokenLists(_)
TokenLists(n) ==
    IF n = 0 THEN {<<>>}
    ELSE LET shorter == TokenLists(n - 1)
         IN shorter \cup {Append(l, k) : l \in shorter, k \in SEG_TOKENS}

SegInput(toks) ==
    [val |-> T(join([i \in 1..Len(toks) |-> toks[i].text], <<",">>)),
     labels |-> {toks[i].label : i \in 1..Len(toks)} \ {<<>>}]

SEG_INPUTS ==
    {[val |-> v, labels |-> {}] : v \in {None, NaN}}
    \cup {SegInput(toks) : toks \in TokenLists(MaxToks)}

\* inputs of _calc_status_like_excel: a value as import, create and edit pass
\* it, with what it means (unknown, or the date it stands for)
StatusInput(v, known, dt) == [val |-> v, known |-> known, date |-> dt]

STATUS_DATES == {d_20_may, d_07_may, today, d_05_jul, d_20_jul}

STATUS_INPUTS ==
    {StatusInput(v, FALSE, NaT) :
         v \in {None, NaT, T(DASH), T(EMPTY), T(txt_abc)}}
    \cup {StatusInput(dt, TRUE, dt) : dt \in STATUS_DATES}
    \cup {StatusInput(T(DDMMYYYY(dt)), TRUE, dt) : dt \in STATUS_DATES}

Call_s(v) ==
    /\ call.fn = "none"
    /\ call' = [fn |-> "_s", arg |-> v, ret |-> _s(v)]
    /\ UNCHANGED <<table, comments, auth, processed_hashes, upload_key,
                   uuid_counter, now, last>>

Call_fmt_date(x) ==
    /\ call.fn = "none"
    /\ call' = [fn |-> "_fmt_date", arg |-> x, ret |-> _fmt_date(x.val)]
    /\ UNCHANGED <<table, comments, auth, processed_hashes, upload_key,
                   uuid_counter, now, last>>

Call_normalize_segments(x) ==
    /\ call.fn = "none"
    /\ call' = [fn |-> "normalize_segments", arg |-> x,
                ret |-> normalize_segments(x.val)]
    /\ UNCHANGED <<table, comments, auth, processed_hashes, upload_key,
                   uuid_counter, now, last>>

Call_calc_status(da, ir, vg) ==
    /\ call.fn = "none"
    /\ call' = [fn |-> "_calc_status_like_excel", arg |-> <<da, ir, vg>>,
                ret |-> _calc_status_like_excel(da.val, ir.val, vg.val)]
    /\ UNCHANGED <<table, comments, auth, processed_hashes, upload_key,
                   uuid_counter, now, last>>

\* two stored records for _update_record to work on, written at time 0
STORED ==
    <<_insert_record_main(
          create_record(CreateWidgets(T(txt_Acme), dates_renewal_in_may,
                                      T(txt_abc), <<FornecedorDeDados>>)),
          uuid4(1), 0),
      _insert_record_main(
          create_record(CreateWidgets(T(txt_Beta), dates_none, T(DASH),
                                      <<FornecedorDeSolucoes>>)),
          uuid4(2), 0)>>

REC_IDS == {uuid4(1), uuid4(2), uuid4(9), T(EMPTY), None}

\* updates dictionaries: empty, one text column, a date column with a text
\* column, keys that are no column of the table, the identifier, and the
\* two timestamps
UPDATES ==
    {[k \in {} |-> None],
     [k \in {"OBS"} |-> T(txt_x_padded)],
     [k \in {"VIGENCIA", "NOME_EMPRESA"} |->
         IF k = "VIGENCIA" THEN T(DDMMYYYY(d_20_jul)) ELSE T(txt_Beta)],
     [k \in {"Coluna Extra"} |-> T(txt_abc)],
     [k \in {"ID", "OBS"} |-> T(txt_abc)],
     [k \in {"CREATED_AT"} |-> T(txt_abc)],
     [k \in {"UPDATED_AT", "SITE"} |-> T(txt_abc)]}

\* one call of _update_record at time 1: ValueError for a falsy rec_id
\* (line 358), otherwise the table after the UPDATE
Call_update_record(rec_id, updates) ==
    /\ call.fn = "none"
    /\ call' = [fn |-> "_update_record",
                arg |-> [table |-> STORED, rec_id |-> rec_id,
                         updates |-> updates, now |-> 1],
                ret |-> IF Falsy(rec_id)
                        THEN [raised |-> "ValueError", table |-> STORED]
                        ELSE [raised |-> "none",
                              table |-> _update_record(STORED, rec_id,
                                                       updates, 1)]]
    /\ UNCHANGED <<table, comments, auth, processed_hashes, upload_key,
                   uuid_counter, now, last>>

NextHelpers ==
    \/ \E v \in S_INPUTS : Call_s(v)
    \/ \E rec_id \in REC_IDS, updates \in UPDATES :
           Call_update_record(rec_id, updates)
    \/ \E x \in FMT_INPUTS : Call_fmt_date(x)
    \/ \E x \in SEG_INPUTS : Call_normalize_segments(x)
    \/ \E da \in STATUS_INPUTS, ir \in STATUS_INPUTS, vg \in STATUS_INPUTS :
           Call_calc_status(da, ir, vg)

SpecHelpers == Init /\ [][NextHelpers]_vars

(***************************************************************************)
(* Properties of the program (Spec)                                        *)
(***************************************************************************)
DayNumber(dt) == dt.y * 10000 + dt.m * 100 + dt.d

AfterToday(x) == x.known /\ DayNumber(x.date) > DayNumber(today)

BeforeToday(x) == x.known /\ DayNumber(x.date) < DayNumber(today)

DecisionList(da, ir, vg) ==
    IF ~da.known THEN EM_NEGOCIACAO
    ELSE IF AfterToday(ir) THEN EM_VIGENCIA
    ELSE IF BeforeToday(ir) /\ AfterToday(vg) THEN SOLICITAR_RENOVACAO
    ELSE IF BeforeToday(vg) THEN ATRASADO
    ELSE DASH

\* a stored date cell: NULL is an unknown date
StoredDate(v) == [known |-> IsDate(v), date |-> v]

StatusOfStored(row) ==
    DecisionList(StoredDate(row["DATA_ASSINATURA"]),
                 StoredDate(row["INICIO_RENOV"]), StoredDate(row["VIGENCIA"]))

\* the row of table written for the k-th row of the imported sheet
ImportedRow(k) == table[(CHOOSE i \in last.rows : \A j \in last.rows : i <= j)
                        + k - 1]

\* the headers of the imported sheet that stand for column c
HeadersOf(c) == {h \in last.input.columns : CanonOf(h) = c}

\* C2: after any sequence of imports, creates and edit saves, the STATUS of
\* every stored record is the status derived from the three dates stored in
\* that record; a status found in the spreadsheet or typed in the Status box
\* is never stored as it is.
C2_StatusAlwaysDerived ==
    \A i \in 1..Len(table) :
        /\ table[i]["STATUS"].s \in STATUSES
        /\ table[i]["STATUS"] = T(StatusOfStored(table[i]))

\* an edit saved with ATIVO typed in the Status box
C2_Witness ==
    /\ last.op = "edit"
    /\ last.input.text["STATUS"] = T(txt_ATIVO)
    /\ last.rows # {}
    /\ \A i \in last.rows : table[i]["STATUS"] = T(StatusOfStored(table[i]))

CanonicalSegmento(v) ==
    /\ v.t = "str"
    /\ \E S \in (SUBSET Range(SEGMENT_OPTIONS)) \ {{}} :
           v.s = join(SelectSeq(SEGMENT_OPTIONS, LAMBDA x : x \in S),
                      <<",", " ">>)

NoSegmentSubmitted(l) ==
    /\ l.op \in {"create", "create_rejected", "edit", "edit_rejected"}
    /\ l.input.segmentos_ms = <<>>

\* C3: after any sequence of imports, creates and edit saves, the SEGMENTO of
\* every stored record is a non-empty ", "-joined list of known labels, none
\* repeated, in declaration order; a create or an edit submitted with no
\* segment selected leaves the table as it was.
C3_SegmentoCanonical ==
    [][/\ \A i \in 1..Len(table') : CanonicalSegmento(table'[i]["SEGMENTO"])
       /\ NoSegmentSubmitted(last') => table' = table]_vars

\* an edit refused for its empty segment box, over a table holding a record
\* with two labels
C3_Witness ==
    /\ last.op = "edit_rejected"
    /\ last.input.segmentos_ms = <<>>
    /\ \E i \in 1..Len(table) :
           table[i]["SEGMENTO"] =
               T(join(<<FornecedorDeSolucoes, SemSegmento>>, <<",", " ">>))
    /\ \A i \in 1..Len(table) : CanonicalSegmento(table[i]["SEGMENTO"])

\* C8: a valid calendar date entered as DD/MM/YYYY text in the create form,
\* the edit form or a spreadsheet cell is stored as that same calendar date,
\* day and month never exchanged.
C8_DayFirstStorage ==
    /\ last.op \in {"create", "edit"} =>
          \A i \in last.rows, c \in DateSet, d \in SAMPLE_DATES :
              last.input.text[c] = T(DDMMYYYY(d)) => table[i][c] = d
    /\ last.op = "import" =>
          \A k \in 1..Len(last.input.rows), c \in DateSet, d \in SAMPLE_DATES :
              \A h \in HeadersOf(c) :
                  last.input.rows[k][h] = T(DDMMYYYY(d)) => ImportedRow(k)[c] = d

NotADate(v) == v.t = "str" /\ strip(v.s) = txt_abc

\* C9: a date whose text cannot be parsed never keeps a record from being
\* written: an import writes one record per sheet row, a create or an edit is
\* refused only for its segments or its name, and the date is stored as NULL
\* and counts as unknown in the stored status.
C9_UnparseableDateStoredNull ==
    /\ last.op \in {"create", "edit"} =>
          /\ last.rows # {}
          /\ \A i \in last.rows, c \in DateSet :
                 NotADate(last.input.text[c]) =>
                     /\ table[i][c] = None
                     /\ table[i]["STATUS"] = T(StatusOfStored(table[i]))
    /\ last.op = "create_rejected" =>
          \/ last.input.segmentos_ms = <<>>
          \/ strip(last.input.text["NOME_EMPRESA"].s) = EMPTY
    /\ last.op = "edit_rejected" => last.input.segmentos_ms = <<>>
    /\ last.op = "import" =>
          /\ Cardinality(last.rows) = Len(last.input.rows)
          /\ \A k \in 1..Len(last.input.rows), c \in DateSet :
                 \A h \in HeadersOf(c) :
                     NotADate(last.input.rows[k][h]) =>
                         /\ ImportedRow(k)[c] = None
                         /\ ImportedRow(k)["STATUS"] =
                                T(StatusOfStored(ImportedRow(k)))

\* a create with "abc" as renewal start: written, renewal start NULL, and the
\* status that of an expired contract
C9_Witness ==
    /\ last.op = "create"
    /\ NotADate(last.input.text["INICIO_RENOV"])
    /\ \E i \in last.rows :
           /\ table[i]["INICIO_RENOV"] = None
           /\ IsDate(table[i]["VIGENCIA"])
           /\ table[i]["STATUS"] = T(ATRASADO)

\* what import and create have in common for C10: the columns of the records
\* written, the date columns the sheet lacks, the cells under legacy headers
WrittenShape ==
    /\ last.op \in {"import", "create"} =>
          \A i \in last.rows : DOMAIN table[i] = ColsSet
    /\ last.op = "import" =>
          \A k \in 1..Len(last.input.rows) :
              /\ \A c \in DateSet :
                     HeadersOf(c) = {} => ImportedRow(k)[c] = None
              /\ \A h \in last.input.columns :
                     (CanonOf(h) \in ExpectedSet
                          /\ last.input.rows[k][h] = T(txt_x_padded))
                         => ImportedRow(k)[CanonOf(h)] = T(<<"x">>)

PlainCols == ExpectedSet \ (DateSet \cup {"SEGMENTO", "STATUS", "PRIORIDADE"})

\* C11: for every non-date column other than SEGMENTO and STATUS, import and
\* create both store the display form _s of the raw value, so that the same
\* raw value ("NAN", "nat", ...) is stored the same way on the two paths.
C11_BothPathsStoreDisplayForm ==
    /\ last.op = "import" =>
          \A k \in 1..Len(last.input.rows), h \in last.input.columns :
              CanonOf(h) \in PlainCols =>
                  ImportedRow(k)[CanonOf(h)] = _s(last.input.rows[k][h])
    /\ last.op = "create" =>
          \A i \in last.rows, c \in PlainCols :
              table[i][c] = _s(last.input.text[c])

\* C12: after any sequence of imports and creates no two stored records
\* share an identifier, whatever columns the spreadsheet has and however
\* often the same rows are imported.
C12_UniqueIds ==
    \A i, j \in 1..Len(table) : i # j => table[i]["ID"] # table[j]["ID"]

\* the identifiers stored in a table
IdsOf(tbl) == {tbl[i]["ID"] : i \in 1..Len(tbl)}

\* a step of the sidebar import that wrote the table
ImportStep == last'.op = "import" /\ now' # now

\* C14: import only appends, one record for each row of the spreadsheet,
\* leaving the records stored before as they were; no operation removes a
\* record: the set of stored identifiers never shrinks.
C14_ImportOnlyAppends ==
    [][/\ Len(table') >= Len(table)
       /\ IdsOf(table) \subseteq IdsOf(table')
       /\ \A i \in 1..Len(table) : table'[i]["ID"] = table[i]["ID"]
       /\ ImportStep =>
             /\ Len(table') = Len(table) + Len(last'.input.rows)
             /\ SubSeq(table', 1, Len(table)) = table
             /\ last'.rows = (Len(table) + 1)..Len(table')]_vars

\* a sheet of two rows was appended to a table that had records
C14_Witness ==
    /\ last.op = "import"
    /\ Len(last.input.rows) = 2
    /\ Cardinality(last.rows) = 2
    /\ Len(table) > 2

\* cs2 is cs with exactly one comment added at the end, attached to id
OneCommentAdded(cs, cs2, id) ==
    /\ Len(cs2) = Len(cs) + 1
    /\ SubSeq(cs2, 1, Len(cs)) = cs
    /\ cs2[Len(cs2)].EMPRESA_ID = id

\* got holds the comments of cs attached to id, and only those, newest first
FetchedFor(got, cs, id) ==
    /\ \A k \in 1..Len(got) : got[k].EMPRESA_ID = id
    /\ \A k \in 1..Len(got) : \E j \in 1..Len(cs) : cs[j] = got[k]
    /\ Len(got) = Cardinality({j \in 1..Len(cs) : cs[j].EMPRESA_ID = id})
    /\ \A k \in 1..(Len(got) - 1) :
           got[k].CREATED_AT.n >= got[k + 1].CREATED_AT.n

\* C15: comments are append-only.  A step that changes the comments table
\* is a comment step adding one comment, with a non-blank message, to a
\* stored record; and on the tables every such step leaves,
\* _insert_comment with a non-blank message adds exactly one comment
\* attached to the given record and keeps the others, with a
\* whitespace-only message it adds nothing, and _fetch_comments returns the
\* requested record's comments only, newest first.
C15_CommentsAppendOnly ==
    [][/\ comments' # comments =>
             /\ last'.op = "comment"
             /\ strip(Str(last'.input)) # EMPTY
             /\ \E id \in IdsOf(table) : OneCommentAdded(comments, comments', id)
             /\ comments'[Len(comments')].MESSAGE = T(strip(Str(last'.input)))
       /\ comments' # comments =>
          \A id \in IdsOf(table') \cup {uuid4(9)}, msg \in COMMENT_TEXTS :
             LET after == _insert_comment(comments', uuid4(uuid_counter' + 1),
                                          id, "spdo_admin",
                                          USERS["spdo_admin"].name, msg,
                                          now' + 1)
             IN /\ strip(Str(msg)) = EMPTY => after = comments'
                /\ strip(Str(msg)) # EMPTY =>
                       OneCommentAdded(comments', after, id)
                /\ FetchedFor(_fetch_comments(after, id), after, id)
      ]_vars

\* a comment was added to a stored record
C15_Witness ==
    /\ last.op = "comment"
    /\ Len(comments) >= 1
    /\ comments[Len(comments)].EMPRESA_ID \in IdsOf(table)
    /\ comments[Len(comments)].MESSAGE = T(txt_abc)

\* the same widgets with another text in the Status box
OtherStatusBox(w) ==
    [w EXCEPT !.text["STATUS"] =
        IF w.text["STATUS"] = T(txt_abc) THEN T(txt_ATIVO) ELSE T(txt_abc)]

\* a step of the edit form that was saved
EditStep == last'.op = "edit" /\ now' # now

\* C17: the Status box of the edit form has no effect: the save writes the
\* updates dictionary of the form, which is the same dictionary with any
\* other text in the Status box, and the STATUS it stores is the derived
\* one.
C17_StatusBoxIgnored ==
    [][EditStep =>
          LET updates == edit_updates(last'.input)
          IN /\ edit_updates(OtherStatusBox(last'.input)) = updates
             /\ \A i \in last'.rows :
                    /\ table' = _update_record(table, table[i]["ID"], updates,
                                               now')
                    /\ table'[i]["STATUS"] = T(StatusOfStored(table'[i]))
      ]_vars

\* an edit saved with ATIVO in the Status box stored another status
C17_Witness ==
    /\ last.op = "edit"
    /\ last.input.text["STATUS"] = T(txt_ATIVO)
    /\ \E i \in last.rows : table[i]["STATUS"] # T(txt_ATIVO)

\* a step of the sidebar upload of the given kind
UploadStep(kind) == last'.op = kind /\ last' # last

\* C18: within one login session a file is imported at most once.  An
\* import appends rows only for a file whose hash is not in
\* processed_hashes, and puts the hash there; the hash stays there until
\* logout; an upload of a file whose hash is there appends nothing; a file
\* whose import failed is not marked as processed.
C18_ImportedOncePerSession ==
    [][/\ ImportStep =>
             /\ last'.file \notin processed_hashes
             /\ last'.file \in processed_hashes'
       /\ (auth.is_auth /\ auth'.is_auth) =>
             processed_hashes \subseteq processed_hashes'
       /\ UploadStep("import_duplicate") =>
             /\ last'.file \in processed_hashes
             /\ table' = table
             /\ processed_hashes' = processed_hashes
       /\ UploadStep("import_failed") =>
             /\ table' = table
             /\ last'.file \notin processed_hashes'
       /\ (table' # table /\ last'.op \notin {"create", "edit"}) =>
             (ImportStep /\ last'.file \notin processed_hashes)]_vars

\* a file imported in this session was uploaded again and refused
C18_Witness ==
    /\ last.op = "import_duplicate"
    /\ last.file \in processed_hashes
    /\ \E f \in FILES : f.digest = last.file /\ Len(table) >= Len(f.df.rows)
    /\ Len(table) >= 1

\* C19: the create form never stores a record without a display name:
\* every record it created has a NOME_EMPRESA other than "-".
C19_CreatedRecordHasName ==
    last.op = "create" =>
        \A i \in last.rows : table[i]["NOME_EMPRESA"] # T(DASH)

\* C20: only an admin session changes stored data: a step that changes the
\* table of records or the table of comments is taken by a session that is
\* authenticated as admin.
C20_OnlyAdminWrites ==
    [][(table' # table \/ comments' # comments) => is_admin]_vars

\* "Sem Segmento" is in the list only when it is the whole list
SentinelAlone(segs) ==
    (\E k \in 1..Len(segs) : segs[k] = SemSegmento) => segs = <<SemSegmento>>

\* C21: "Sem Segmento" is only a default: among the labels of every stored
\* SEGMENTO, as normalize_segments returns them, "Sem Segmento" is the only
\* label or is not there, never next to a named segment.
C21_SentinelOnlyAlone ==
    \A i \in 1..Len(table) :
        SentinelAlone(normalize_segments(table[i]["SEGMENTO"]))

(***************************************************************************)
(* Properties of the helpers (SpecHelpers)                                 *)
(***************************************************************************)
\* C1: for every combination of signing, renewal-start and valid-until date
\* (unknown, before, equal to or after today) _calc_status_like_excel returns
\* the status of the first matching rule: EM NEGOCIACAO if signing is unknown,
\* else EM VIGENCIA if renewal start is after today, else SOLICITAR RENOVACAO
\* if renewal start is before today and valid-until after today, else
\* ATRASADO if valid-until is before today, else "-".
C1_StatusDecisionList ==
    call.fn = "_calc_status_like_excel" =>
        /\ call.ret.s \in STATUSES
        /\ call.ret = T(DecisionList(call.arg[1], call.arg[2], call.arg[3]))

\* renewal start after today wins over an expired valid-until date
C1_Witness ==
    /\ call.fn = "_calc_status_like_excel"
    /\ call.arg[1].known
    /\ AfterToday(call.arg[2])
    /\ BeforeToday(call.arg[3])
    /\ call.ret = T(EM_VIGENCIA)

\* C4: normalize_segments returns exactly <<"Sem Segmento">> for null, blank,
\* "-" and "nan" and whenever no token stands for a known segment; otherwise
\* it returns the labels its tokens stand for, unmatched tokens dropped, each
\* label once whatever the case and accents of the tokens.
C4_NormalizeSegmentsDefault ==
    call.fn = "normalize_segments" =>
        /\ call.arg.labels = {} => call.ret = <<SemSegmento>>
        /\ call.arg.labels # {} => Range(call.ret) = call.arg.labels
        /\ \A i, j \in 1..Len(call.ret) : i # j => call.ret[i] # call.ret[j]

\* the same label written twice, once in capitals, next to an unknown token
C4_Witness ==
    /\ call.fn = "normalize_segments"
    /\ call.arg.val.t = "str"
    /\ \E k \in 1..Len(call.arg.val.s) - Len(tok_dados_upper) + 1 :
           SubSeq(call.arg.val.s, k, k + Len(tok_dados_upper) - 1) = tok_dados_upper
    /\ call.arg.labels = {FornecedorDeDados}
    /\ call.ret = <<FornecedorDeDados>>

\* C5: normalising the display form of a normalised segment list gives the
\* same list: normalize_segments(segments_to_str(normalize_segments(x))) =
\* normalize_segments(x).
C5_SegmentsFixpoint ==
    call.fn = "normalize_segments" =>
        normalize_segments(T(segments_to_str(call.ret))) = call.ret

\* a result with two labels goes through the display form
C5_Witness ==
    /\ call.fn = "normalize_segments"
    /\ Len(call.ret) = 2
    /\ normalize_segments(T(segments_to_str(call.ret))) = call.ret

\* r is s without its leading and trailing blanks
IsStripOf(r, s) ==
    \E i, j \in 0..Len(s) :
        /\ i + j <= Len(s)
        /\ r = SubSeq(s, i + 1, Len(s) - j)
        /\ \A k \in 1..i : s[k] = " "
        /\ \A k \in (Len(s) - j + 1)..Len(s) : s[k] = " "
        /\ r = <<>> \/ (r[1] # " " /\ r[Len(r)] # " ")

\* r is "nan" or "nat" in any mix of capitals
IsNanOrNat(r) ==
    /\ Len(r) = 3
    /\ r[1] \in {"n", "N"} /\ r[2] \in {"a", "A"} /\ r[3] \in {"n", "N", "t", "T"}

\* C6: _s returns "-" for null, for whitespace-only text and for any text that
\* is "nan" or "nat" ignoring case and surrounding whitespace; for every other
\* text it returns the text with the surrounding whitespace removed.
C6_DisplayTotal ==
    call.fn = "_s" =>
        /\ call.ret.t = "str"
        /\ call.arg.t \in {"None", "float_nan", "NaT"} => call.ret = T(DASH)
        /\ call.arg.t = "str" =>
              \E i, j \in 0..Len(call.arg.s) :
                  LET r == SubSeq(call.arg.s, i + 1, Len(call.arg.s) - j)
                  IN /\ i + j <= Len(call.arg.s)
                     /\ IsStripOf(r, call.arg.s)
                     /\ call.ret = IF r = <<>> \/ IsNanOrNat(r) THEN T(DASH)
                                   ELSE T(r)

\* "NaT" between blanks is shown as "-"
C6_Witness ==
    /\ call.fn = "_s"
    /\ call.arg = T(<<" ", "N", "a", "T", " ">>)
    /\ call.ret = T(DASH)

LooksDDMMYYYY(s) == LooksSlash(s)

\* C7 as stated: _fmt_date returns a date in DD/MM/YYYY form when the input
\* parses as a date and "-" for everything else (null, blank, sentinel, and
\* text that does not parse); it never returns any other text.
C7_FmtDateOnlyDateOrDash ==
    call.fn = "_fmt_date" =>
        /\ call.arg.kind = "date" => LooksDDMMYYYY(call.ret.s)
        /\ call.arg.kind # "date" => call.ret = T(DASH)

\* C7 amended: _fmt_date returns the date in DD/MM/YYYY form when the input
\* parses as a date, "-" for null, blank and sentinel input, and for any other
\* text the text itself with the surrounding whitespace removed.
C7_FmtDateOrText ==
    call.fn = "_fmt_date" =>
        /\ call.ret.t = "str"
        /\ call.arg.kind = "date" => call.ret = T(DDMMYYYY(call.arg.date))
        /\ call.arg.kind = "nothing" => call.ret = T(DASH)
        /\ call.arg.kind = "text" =>
              /\ IsStripOf(call.ret.s, call.arg.val.s)
              /\ call.ret.s # EMPTY

\* a text that is no date comes back unchanged
C7_Witness ==
    /\ call.fn = "_fmt_date"
    /\ call.arg.kind = "text"
    /\ call.arg.val = T(<<" ">> \o txt_abc)
    /\ call.ret = T(txt_abc)

\* C13: CREATED_AT is set once at creation: no call of _update_record
\* changes it, whatever the updates dictionary.
C13_CreatedAtNeverUpdated ==
    call.fn = "_update_record" =>
        \A i \in 1..Len(call.arg.table) :
            call.ret.table[i]["CREATED_AT"] = call.arg.table[i]["CREATED_AT"]

\* the columns _update_record accepts in updates (line 364)
ValidUpdateCols == ExpectedSet \cup {"CREATED_AT", "UPDATED_AT"}

\* C16: _update_record is a partial update in place: it changes only the
\* records whose ID equals rec_id, and of those only the columns named in
\* updates that are valid columns, plus UPDATED_AT, which every non-empty
\* update refreshes; ID, the other columns and the other records stay as
\* they were; a falsy rec_id raises ValueError and writes nothing.
C16_PartialUpdateInPlace ==
    call.fn = "_update_record" =>
        LET a == call.arg
            before == a.table
            after == call.ret.table
            named == DOMAIN a.updates \cap ValidUpdateCols
        IN /\ Len(after) = Len(before)
           /\ call.ret.raised = "ValueError" <=> Falsy(a.rec_id)
           /\ call.ret.raised = "ValueError" => after = before
           /\ DOMAIN a.updates = {} => after = before
           /\ \A i \in 1..Len(before) :
                 /\ DOMAIN after[i] = DOMAIN before[i]
                 /\ after[i]["ID"] = before[i]["ID"]
                 /\ before[i]["ID"] # a.rec_id => after[i] = before[i]
                 /\ \A c \in DOMAIN before[i] \ (named \cup {"UPDATED_AT"}) :
                        after[i][c] = before[i][c]
                 /\ (/\ before[i]["ID"] = a.rec_id
                     /\ DOMAIN a.updates # {}
                     /\ call.ret.raised = "none") =>
                        /\ after[i]["UPDATED_AT"] = Timestamp(a.now)
                        /\ \A c \in named :
                               after[i][c] = set_part(c, a.updates[c], a.now)

\* a record was updated in a named column, next to a record left alone
C16_Witness ==
    /\ call.fn = "_update_record"
    /\ call.ret.raised = "none"
    /\ "OBS" \in DOMAIN call.arg.updates
    /\ "ID" \in DOMAIN call.arg.updates
    /\ \E i, j \in 1..Len(call.arg.table) :
          /\ call.ret.table[i]["OBS"] # call.arg.table[i]["OBS"]
          /\ call.ret.table[i]["UPDATED_AT"] # call.arg.table[i]["UPDATED_AT"]
          /\ call.ret.table[j] = call.arg.table[j]

====
